---------------------------- MODULE Spec2Model ----------------------------
(***************************************************************************)
(* A model of m2m/M2mClient.py (class M2mClient): the table-of-contents    *)
(* catalog, the lookups over it, the deployment-event normaliser, the      *)
(* request-URL builder and the m2m transport wrapper.                      *)
(*                                                                         *)
(* Strings that the code searches, splits or sorts are sequences of        *)
(* one-character strings.  A timestamp string is a record: what it denotes *)
(* (wall clock in hours, zone designator) and how it is written.  Python   *)
(* dicts that several containers share are kept once (in toc_response) and *)
(* referred to by index, so that a mutation through one path is seen       *)
(* through the others.                                                     *)
(***************************************************************************)
EXTENDS Integers, Sequences, FiniteSets, TLC

VARIABLES
    phase,                          \* "new" | "ready" | "failed" (constructor raised)
    base_url,                       \* self._base_url
    m2m_base_url,                   \* self._m2m_base_url
    static_toc,                     \* self._static_toc
    toc_response,                   \* self._toc_response (the document, with its nested dicts)
    toc,                            \* self._toc: reference designator -> index into toc_response.instruments
    instruments,                    \* self._instruments
    parameters,                     \* self._parameters
    streams,                        \* self._streams
    subsites,                       \* self._subsites
    selected_raw_events,            \* self._selected_raw_events
    filtered_raw_events,            \* self._filtered_raw_events
    instrument_deployment_events,   \* self._instrument_deployment_events
    last_m2m_request,               \* self._last_m2m_request
    last_m2m_status_code,           \* self._last_m2m_status_code
    last_m2m_response,              \* self._last_m2m_response
    call                            \* the last call made on the client: its arguments and outcome

vars == <<phase, base_url, m2m_base_url, static_toc, toc_response, toc, instruments, parameters,
          streams, subsites, selected_raw_events, filtered_raw_events,
          instrument_deployment_events, last_m2m_request, last_m2m_status_code,
          last_m2m_response, call>>


-----------------------------------------------------------------------------
(* Bounds of the model.                                                    *)

\* Wall-clock hours 0..MaxHour are the times the inputs are drawn from.
MaxHour == 3
\* time_delta_value is drawn from 0..MaxDelta (and None).
MaxDelta == 2
\* A deployment query's response holds at most MaxEvents events.
MaxEvents == 2
\* The last second datetime.utcfromtimestamp converts (the end of year 9999),
\* scaled down to the model's event times.
LastSecond == 2

-----------------------------------------------------------------------------
(* Python values.                                                          *)

None == "None"

HTTP_STATUS_OK == 200

\* A variant that also lets "fortnights" through.
AnyDeltaType ==
    {"years", "months", "weeks", "days", "hours", "minutes", "seconds", "fortnights"}

_valid_relativedeltatypes ==
    {"years", "months", "weeks", "days", "hours", "minutes", "seconds"}

\* Python truthiness (`if x:`) of an optional name: None and '' are false.
TruthyName(v) == v # None /\ v # ""

\* An optional number is <<>> (None) or <<n>>; None and 0 are false.
NoInt == <<>>
TruthyInt(v) == v # NoInt /\ v[1] # 0

-----------------------------------------------------------------------------
(* Character strings: str.find, str.split('-'), list.sort.                 *)

\* Code point of the characters the model's strings are written in.
Ord(c) ==
    CASE c = "-" -> 45
      [] c = "0" -> 48
      [] c = "1" -> 49
      [] c = "C" -> 67
      [] c = "G" -> 71
      [] c = "M" -> 77
      [] c = "X" -> 88
      [] c = "Y" -> 89
      [] c = "c" -> 99
      [] c = "m" -> 109
      [] c = "p" -> 112
      [] c = "r" -> 114
      [] c = "t" -> 116
      [] c = "v" -> 118

\* s.find(t) >= 0
Contains(s, t) ==
    \E i \in 0..(Len(s) - Len(t)) : SubSeq(s, i + 1, i + Len(t)) = t

\* a < b for Python strings: code-point lexicographic order.
RECURSIVE StrLess(_, _)
StrLess(a, b) ==
    IF b = <<>> THEN FALSE
    ELSE IF a = <<>> THEN TRUE
    ELSE IF Head(a) = Head(b) THEN StrLess(Tail(a), Tail(b))
    ELSE Ord(Head(a)) < Ord(Head(b))

\* Insertion of x into the ascending list l, after the elements equal to it.
RECURSIVE Insert(_, _)
Insert(x, l) ==
    IF l = <<>> THEN <<x>>
    ELSE IF StrLess(x, Head(l)) THEN <<x>> \o l
    ELSE <<Head(l)>> \o Insert(x, Tail(l))

\* list.sort() on a list of strings: ascending, duplicates kept.
RECURSIVE Sort(_)
Sort(l) == IF l = <<>> THEN <<>> ELSE Insert(l[Len(l)], Sort(SubSeq(l, 1, Len(l) - 1)))

\* s.split('-')
RECURSIVE Split(_)
Split(s) ==
    IF \A i \in 1..Len(s) : s[i] # "-" THEN <<s>>
    ELSE LET k == CHOOSE i \in 1..Len(s) :
                      s[i] = "-" /\ \A j \in 1..(i - 1) : s[j] # "-"
         IN  <<SubSeq(s, 1, k - 1)>> \o Split(SubSeq(s, k + 1, Len(s)))

\* The elements of a list, as a set.
Range(l) == {l[i] : i \in 1..Len(l)}

\* Every ordering of the elements of a finite set (the key order of a dict).
RECURSIVE Orders(_)
Orders(S) ==
    IF S = {} THEN {<<>>}
    ELSE UNION {{<<x>> \o o : o \in Orders(S \ {x})} : x \in S}

-----------------------------------------------------------------------------
(* Timestamps: dateutil.parser.parse, datetime comparison, strftime,       *)
(* relativedelta.                                                          *)

\* Hours that the zone designator "+01:00"-style strings of the model are
\* ahead of UTC.
EastOffset == 2

\* A timestamp string: absent (None), unparseable, or a date-time with a wall
\* clock w (hours), a zone designator (none, "Z", or an offset east of UTC)
\* and its spelling: us is TRUE for the exact form '%Y-%m-%dT%H:%M:%S.%fZ'.
NoTs == [kind |-> "none"]
BadTs == [kind |-> "bad"]
Ts(w, tz, us) == [kind |-> "ts", w |-> w, tz |-> tz, us |-> us]

\* `if begin_ts:` for an optional timestamp string.
TruthyTs(s) == s.kind # "none"

\* parser.parse(s) raises ValueError
ParseFails(s) == s.kind # "ts"
\* parser.parse(s): a datetime, naive when the string carries no zone.
Parse(s) == [w |-> s.w, tz |-> s.tz]

\* dt.strftime('%Y-%m-%dT%H:%M:%S.%fZ'): the wall-clock fields followed by a
\* literal Z, whatever the datetime's tzinfo is.
Strftime(dt) == Ts(dt.w, "utc", TRUE)

UtcOffset(tz) == IF tz = "east" THEN EastOffset ELSE 0

\* The instant a datetime (or a parseable timestamp string) denotes, in hours
\* UTC; a naive one is read as UTC, as the emitted Z-suffixed form reads it.
Instant(dt) == dt.w - UtcOffset(dt.tz)

\* Ordering two datetimes raises TypeError when exactly one of them is naive.
CompareFails(a, b) == (a.tz = "naive") # (b.tz = "naive")
DtLess(a, b) == Instant(a) < Instant(b)

\* Hours in one unit of the fixed-length relativedelta types the model uses.
UnitHours(type) ==
    CASE type = "hours" -> 1
      [] type = "days" -> 24
      [] type = "weeks" -> 168

\* relativedelta(**{type: value}) raises TypeError: not a keyword it accepts.
DeltaFails(type) == type \notin {"years", "months", "weeks", "days", "hours", "minutes", "seconds"}

\* dt - relativedelta(**{type: value})
MinusDelta(dt, type, value) == [dt EXCEPT !.w = @ - value * UnitHours(type)]

-----------------------------------------------------------------------------
(* The table-of-contents document (the JSON of /sensor/inv/toc) and the     *)
(* documents the model's two servers hold.                                  *)

\* Optional list of references: the key is absent, or holds a list.
NotSet == [set |-> FALSE]
Refs(l) == [set |-> TRUE, refs |-> l]

Stream(name, method, b, e) ==
    [stream |-> name, method |-> method, beginTime |-> b, endTime |-> e,
     reference_designator |-> <<>>,       \* <<>>: key not set yet
     beginTimeEpochMs |-> NoInt, endTimeEpochMs |-> NoInt]

Instrument(rd, ss) ==
    [reference_designator |-> rd, streams |-> ss, instrument_parameters |-> NotSet]

ParamDef(id, key) == [pdId |-> id, particle_key |-> key, stream |-> <<>>]

Doc(insts, pds, pbs) ==
    [instruments |-> insts, parameter_definitions |-> pds, parameters_by_stream |-> pbs]

\* self._toc_response = None; a JSON body {} ; a JSON object that is no TOC.
NoDoc == [none |-> TRUE]
EmptyJson == [empty |-> TRUE]
NotToc == [message |-> "not found"]

RD_CM0X == <<"C", "-", "M", "-", "0", "-", "X">>
RD_CM1Y == <<"C", "-", "M", "-", "1", "-", "Y">>
RD_GM0X == <<"G", "-", "M", "-", "0", "-", "X">>
RD_GX == <<"G", "-", "X">>
S_ct == <<"c", "t">>
S_v == <<"v">>
M_tm == <<"t", "m">>
M_rm == <<"r", "m">>

\* Stream coverage strings as the server writes them: Z-suffixed, millisecond
\* precision (not the microsecond form the query builder formats).
Cov(w) == Ts(w, "utc", FALSE)

\* Server A's document: three instruments on two subsites, listed out of order;
\* one stream name under two delivery methods; one stream record listed twice;
\* one unparseable endTime; a parameter id shared by two streams; two
\* parameters with the same key.
DocA ==
    Doc(<< Instrument(RD_GM0X, << Stream(S_v, M_tm, Cov(1), Cov(3)),
                                  Stream(S_v, M_tm, Cov(1), Cov(3)) >>),
           Instrument(RD_CM0X, << Stream(S_ct, M_tm, Cov(1), Cov(3)),
                                  Stream(S_ct, M_rm, Cov(0), Cov(2)) >>),
           Instrument(RD_CM1Y, << Stream(S_v, M_rm, Cov(0), BadTs) >>) >>,
        << ParamDef(2, <<"t">>), ParamDef(1, <<"p">>), ParamDef(3, <<"p">>) >>,
        << [stream |-> S_v, pdIds |-> <<1>>],
           [stream |-> S_ct, pdIds |-> <<1, 2>>] >>)

\* Server B's document: one designator with fewer than four tokens.
DocB ==
    Doc(<< Instrument(RD_GX, << Stream(S_v, M_tm, Cov(1), Cov(3)) >>),
           Instrument(RD_GM0X, << Stream(S_ct, M_tm, Cov(0), Cov(3)) >>) >>,
        << ParamDef(1, <<"c">>) >>,
        << [stream |-> S_ct, pdIds |-> <<1>>],
           [stream |-> S_v, pdIds |-> <<1>>] >>)

\* A stream lists a parameter id that parameter_definitions does not define.
DocMissingParam ==
    Doc(<< Instrument(RD_CM1Y, << Stream(S_v, M_tm, Cov(0), Cov(2)) >>) >>,
        << ParamDef(1, <<"c">>) >>,
        << [stream |-> S_v, pdIds |-> <<1, 3>>] >>)

\* An instrument produces a stream that parameters_by_stream does not list.
DocMissingStream ==
    Doc(<< Instrument(RD_CM1Y, << Stream(S_v, M_tm, Cov(0), Cov(2)) >>),
           Instrument(RD_GM0X, << Stream(S_ct, M_tm, Cov(0), Cov(2)) >>) >>,
        << ParamDef(1, <<"c">>) >>,
        << [stream |-> S_v, pdIds |-> <<1>>] >>)

BaseA == "http://a"
BaseB == "http://b/"

\* The JSON bodies a base URL's server answers the catalog GET with.
TocBodies(url) ==
    IF url = "http://a" THEN {DocA, DocMissingParam, DocMissingStream, NotToc, EmptyJson}
    ELSE {DocB}

\* The documents a caller may pass to the constructor (toc=...).
SuppliedTocs == {NoDoc, DocA, DocB, DocMissingParam}

-----------------------------------------------------------------------------
(* The client object.  Methods are operators from the object's fields (a    *)
(* record c) and the method's inputs to the fields afterwards, the value    *)
(* returned and whether an exception left the method.                       *)

\* The object's fields in the current state.
Self ==
    [base_url |-> base_url, m2m_base_url |-> m2m_base_url, static_toc |-> static_toc,
     toc_response |-> toc_response, toc |-> toc, instruments |-> instruments,
     parameters |-> parameters, streams |-> streams, subsites |-> subsites,
     selected_raw_events |-> selected_raw_events,
     filtered_raw_events |-> filtered_raw_events,
     instrument_deployment_events |-> instrument_deployment_events,
     last_m2m_request |-> last_m2m_request,
     last_m2m_status_code |-> last_m2m_status_code,
     last_m2m_response |-> last_m2m_response]

\* The next state's fields are those of the record c.
Becomes(c) ==
    /\ base_url' = c.base_url
    /\ m2m_base_url' = c.m2m_base_url
    /\ static_toc' = c.static_toc
    /\ toc_response' = c.toc_response
    /\ toc' = c.toc
    /\ instruments' = c.instruments
    /\ parameters' = c.parameters
    /\ streams' = c.streams
    /\ subsites' = c.subsites
    /\ selected_raw_events' = c.selected_raw_events
    /\ filtered_raw_events' = c.filtered_raw_events
    /\ instrument_deployment_events' = c.instrument_deployment_events
    /\ last_m2m_request' = c.last_m2m_request
    /\ last_m2m_status_code' = c.last_m2m_status_code
    /\ last_m2m_response' = c.last_m2m_response

-----------------------------------------------------------------------------
(* The transport: requests.get and _build_and_send_m2m_request.             *)

NoUrl == <<>>
NoCode == <<>>
NoRequest == [none |-> TRUE]

\* requests.get raised ConnectionError (or MissingSchema).
ConnError == [kind |-> "conn_error"]
\* A response: its status code, whether r.json() parses the body, the body.
Resp(code, isjson, body) ==
    [kind |-> "response", status_code |-> code, json |-> isjson, body |-> body]

\* self._last_m2m_response is the very object self._toc_response is.
SameAsTocResponse == [same_as |-> "toc_response"]

TextBody == [text |-> "<html>"]
ErrorJson == [message |-> "not found"]
\* A JSON list (of deployment events); [] is false.
EventsJson(l) == [events |-> l]

\* Truthiness of a JSON value or of None (`if not toc:`).
TruthyJson(v) ==
    /\ v # NoDoc
    /\ v # EmptyJson
    /\ ("events" \in DOMAIN v => v.events # <<>>)

\* What requests.get may yield for a GET whose successful JSON bodies are ok.
Outcomes(ok) ==
    {ConnError, Resp(404, TRUE, ErrorJson), Resp(404, TRUE, EmptyJson),
     Resp(404, FALSE, TextBody), Resp(200, FALSE, TextBody)}
    \cup {Resp(200, TRUE, b) : b \in ok}

\* An end point: a path and, for the deployment query, the designator that
\* follows "?refdes=".
TocEndPoint == [path |-> "/sensor/inv/toc", refdes |-> <<>>]
DeploymentEndPoint(ref_des) ==
    [path |-> "/events/deployment/query?refdes=", refdes |-> ref_des]

\* end_point.strip('/')
StripEndPoint(e) ==
    [e EXCEPT !.path = CASE @ = "/sensor/inv/toc" -> "sensor/inv/toc"
                         [] @ = "/events/deployment/query?refdes=" ->
                                "events/deployment/query?refdes="
                         [] OTHER -> @]

\* '{:s}/{:0.0f}/{:s}'.format(self.m2m_base_url, port, end_point.strip('/'))
M2mUrl(base, port, end_point) ==
    [base |-> base, port |-> port, end_point |-> StripEndPoint(end_point)]

\* _build_and_send_m2m_request(port, end_point), requests.get yielding out.
\* got: whether requests.get was called.
_build_and_send_m2m_request(c, port, end_point, out) ==
    IF c.base_url = None
    THEN [c |-> c, ret |-> NoDoc, raised |-> FALSE, got |-> FALSE]
    ELSE IF out = ConnError
    THEN [c |-> c, ret |-> NoDoc, raised |-> FALSE, got |-> TRUE]
    ELSE
      LET c1 == [c EXCEPT !.last_m2m_request = M2mUrl(c.m2m_base_url, port, end_point),
                          !.last_m2m_status_code = <<out.status_code>>]
      IN  IF out.status_code # HTTP_STATUS_OK
          THEN IF ~out.json
               THEN \* r.json() raises ValueError
                    [c |-> c1, ret |-> NoDoc, raised |-> TRUE, got |-> TRUE]
               ELSE [c |-> [c1 EXCEPT !.last_m2m_response = out.body],
                     ret |-> NoDoc,
                     \* self._last_m2m_response['message'] raises KeyError
                     raised |-> "message" \notin DOMAIN out.body,
                     got |-> TRUE]
          ELSE IF out.json
               THEN [c |-> [c1 EXCEPT !.last_m2m_response = out.body],
                     ret |-> out.body, raised |-> FALSE, got |-> TRUE]
               ELSE [c |-> [c1 EXCEPT !.last_m2m_response = out.body],
                     ret |-> NoDoc, raised |-> FALSE, got |-> TRUE]

-----------------------------------------------------------------------------
(* The catalog loader: _build_toc.                                          *)

\* A dict with string keys is a set of <<key, value>> pairs, one per key.
Keys(d) == {p[1] : p \in d}
At(d, k) == (CHOOSE p \in d : p[1] = k)[2]

\* Some list of the elements of a set (the list is sorted before it is used).
ListOf(S) == CHOOSE o \in Orders(S) : TRUE

\* {i['reference_designator']: i for i in toc['instruments']}: the last
\* instrument of a designator is the one kept.  Values are list positions.
TocOf(insts) ==
    {<<insts[i].reference_designator, i>> :
        i \in {j \in 1..Len(insts) :
                 \A k \in (j + 1)..Len(insts) :
                    insts[k].reference_designator # insts[j].reference_designator}}

\* The keys self._toc will have for a document (none when it has no instruments).
DocKeys(d) == IF "instruments" \in DOMAIN d THEN Keys(TocOf(d.instruments)) ELSE {}
\* The keys of toc['parameters_by_stream'].
DocStreams(d) ==
    IF "parameters_by_stream" \in DOMAIN d
    THEN {d.parameters_by_stream[i].stream : i \in 1..Len(d.parameters_by_stream)}
    ELSE {}

\* param_defs[pdId]: the position of the last definition of that id.
ParamIndex(pds, id) ==
    CHOOSE i \in 1..Len(pds) :
        pds[i].pdId = id /\ \A j \in (i + 1)..Len(pds) : pds[j].pdId # id

PdIdsOf(pbs, s) == (CHOOSE i \in 1..Len(pbs) : pbs[i].stream = s)

\* The loop over toc['parameters_by_stream'].keys(), in the order given:
\* builds stream_defs (stream -> list of parameter references) and stamps each
\* referenced parameter definition with the stream's name.  Stops with
\* raised when a listed pdId has no definition (KeyError).
RECURSIVE JoinParams(_, _, _, _)
JoinParams(pds, pbs, order, defs) ==
    IF order = <<>> THEN [pds |-> pds, defs |-> defs, raised |-> FALSE]
    ELSE
      LET s == Head(order)
          ids == pbs[PdIdsOf(pbs, s)].pdIds
          missing == \E n \in 1..Len(ids) : \A i \in 1..Len(pds) : pds[i].pdId # ids[n]
          refs == [n \in 1..Len(ids) |-> ParamIndex(pds, ids[n])]
          stamped == [i \in 1..Len(pds) |->
                        IF \E n \in 1..Len(refs) : refs[n] = i
                        THEN [pds[i] EXCEPT !.stream = s] ELSE pds[i]]
      IN  IF missing THEN [pds |-> pds, defs |-> defs, raised |-> TRUE]
          ELSE JoinParams(stamped, pbs, Tail(order), defs \cup {<<s, refs>>})

\* The loop over one instrument's streams from position k: stamps the
\* designator on each stream and appends its stream_defs entry to the
\* instrument's parameter list.  Stops with raised when stream_defs has no
\* entry for the stream (KeyError).
RECURSIVE AttachStreams(_, _, _, _, _)
AttachStreams(ss, k, key, defs, acc) ==
    IF k > Len(ss) THEN [streams |-> ss, refs |-> acc, raised |-> FALSE]
    ELSE
      LET ss2 == [ss EXCEPT ![k].reference_designator = key]
      IN  IF ss[k].stream \notin Keys(defs)
          THEN [streams |-> ss2, refs |-> acc, raised |-> TRUE]
          ELSE AttachStreams(ss2, k + 1, key, defs, acc \o At(defs, ss[k].stream))

\* The loop over self._toc.keys(), in the order given.
RECURSIVE AttachAll(_, _, _, _)
AttachAll(insts, t, order, defs) ==
    IF order = <<>> THEN [insts |-> insts, raised |-> FALSE]
    ELSE
      LET key == Head(order)
          idx == At(t, key)
          r == AttachStreams(insts[idx].streams, 1, key, defs, <<>>)
          insts2 == [insts EXCEPT ![idx].streams = r.streams,
                                  ![idx].instrument_parameters = Refs(r.refs)]
      IN  IF r.raised THEN [insts |-> insts2, raised |-> TRUE]
          ELSE AttachAll(insts2, t, Tail(order), defs)

\* A variant that takes the first two tokens of each key.
FirstTwoTokens(keys) == {Split(k)[1] \o <<"-">> \o Split(k)[2] : k \in keys}

\* {t.split('-')[0]: True for t in self._toc.keys()}.keys()
SubsiteSet(keys) == {Split(k)[1] : k \in keys}

\* The body of _build_toc once the document is in hand.  ikeys and skeys are
\* the orders in which the two dicts yield their keys.
BuildFrom(c, tocdoc, ikeys, skeys) ==
    IF ~TruthyJson(tocdoc) THEN [c |-> c, raised |-> FALSE]
    ELSE
      LET c1 == [c EXCEPT !.toc_response = tocdoc]
      IN
      IF "instruments" \notin DOMAIN tocdoc
      THEN [c |-> c1, raised |-> TRUE]
      ELSE
        LET t == TocOf(tocdoc.instruments)
            c2 == [c1 EXCEPT !.toc = t, !.instruments = Sort(ListOf(Keys(t)))]
            j == JoinParams(tocdoc.parameter_definitions,
                            tocdoc.parameters_by_stream, skeys, {})
            d3 == [tocdoc EXCEPT !.parameter_definitions = j.pds]
            a == AttachAll(tocdoc.instruments, t, ikeys, j.defs)
            d4 == [d3 EXCEPT !.instruments = a.insts]
            pds == tocdoc.parameter_definitions
        IN
        IF j.raised
        THEN [c |-> [c2 EXCEPT !.toc_response = d3], raised |-> TRUE]
        ELSE IF a.raised
        THEN [c |-> [c2 EXCEPT !.toc_response = d4], raised |-> TRUE]
        ELSE [c |-> [c2 EXCEPT
                       !.toc_response = d4,
                       !.parameters = Sort([i \in 1..Len(pds) |-> pds[i].particle_key]),
                       !.streams = Sort(ListOf(Keys(j.defs))),
                       !.subsites = Sort(ListOf(SubsiteSet(Keys(t))))],
              raised |-> FALSE]

\* _build_toc(): the stored document when there is one, else one GET of the
\* catalog end point.
_build_toc(c, out, ikeys, skeys) ==
    IF TruthyJson(c.toc_response)
    THEN LET b == BuildFrom(c, c.toc_response, ikeys, skeys)
         IN  [c |-> b.c, raised |-> b.raised, got |-> FALSE]
    ELSE
      LET f == _build_and_send_m2m_request(c, 12576, TocEndPoint, out)
          \* toc is the object self._last_m2m_response holds: once it is stored
          \* in self._toc_response the model keeps it there only.
          fc == IF TruthyJson(f.ret)
                THEN [f.c EXCEPT !.last_m2m_response = SameAsTocResponse]
                ELSE f.c
          b == BuildFrom(fc, f.ret, ikeys, skeys)
      IN  IF f.raised THEN [c |-> f.c, raised |-> TRUE, got |-> f.got]
          ELSE [c |-> b.c, raised |-> b.raised, got |-> f.got]

-----------------------------------------------------------------------------
(* The base_url property setter and the constructor.                        *)

\* The values a caller assigns to base_url.
BaseUrlArgs == {None, "ftp://a", BaseA, BaseB}

\* url.startswith('http')
StartsWithHttp(url) == url \in {"http://a", "http://b/"}

\* url.strip('/')
StripUrl(url) == IF url = "http://b/" THEN "http://b" ELSE url

\* '{:s}/api/m2m'.format(self._base_url)
M2mBase(base) == <<base, "/api/m2m">>

\* base_url.setter
SetBaseUrlOf(c, url, out, ikeys, skeys) ==
    IF url = None \/ url = ""
    THEN [c |-> c, raised |-> FALSE, got |-> FALSE]
    ELSE IF ~StartsWithHttp(url)
    THEN [c |-> c, raised |-> FALSE, got |-> FALSE]
    ELSE
      LET c1 == [c EXCEPT !.base_url = StripUrl(url),
                          !.m2m_base_url = M2mBase(StripUrl(url))]
      IN  IF ~c1.static_toc THEN _build_toc(c1, out, ikeys, skeys)
          ELSE [c |-> c1, raised |-> FALSE, got |-> FALSE]

\* The fields as __init__ sets them before it assigns base_url.
Fresh(tocarg) ==
    [base_url |-> None, m2m_base_url |-> NoUrl,
     static_toc |-> TruthyJson(tocarg),
     toc_response |-> tocarg, toc |-> {}, instruments |-> <<>>,
     parameters |-> <<>>, streams |-> <<>>, subsites |-> <<>>,
     selected_raw_events |-> <<>>, filtered_raw_events |-> <<>>,
     instrument_deployment_events |-> <<>>,
     last_m2m_request |-> NoRequest, last_m2m_status_code |-> NoCode,
     last_m2m_response |-> NoDoc]

\* __init__(base_url, toc=tocarg)
InitOf(url, tocarg, out, ikeys, skeys) ==
    LET r == SetBaseUrlOf(Fresh(tocarg), url, out, ikeys, skeys)
    IN  IF r.raised THEN r
        ELSE [c |-> [r.c EXCEPT !.static_toc = FALSE], raised |-> FALSE,
              got |-> r.got]

-----------------------------------------------------------------------------
(* Direct requests: send_m2m_request.                                       *)

\* A request URL as a caller writes it: the text before the port, the port
\* token (<<n>> for the digits of n, <<>> for a token int() rejects) and the
\* rest of the path.
RequestUrl(base, port, rest) == [base |-> base, port |-> port, rest |-> rest]

\* send_m2m_request returned None.
NoRecord == [none |-> TRUE]

\* The record built after the request (lines 651-659), requests.get having
\* yielded out: the three last-request fields and whether the status code
\* field is 200.
ResponseRecord(c, out) ==
    [requestUrl |-> c.last_m2m_request,
     status |-> c.last_m2m_status_code = <<HTTP_STATUS_OK>>,
     status_code |-> c.last_m2m_status_code,
     response |-> c.last_m2m_response]

\* send_m2m_request(url), requests.get yielding out.
send_m2m_request(c, url, out) ==
    IF c.m2m_base_url = NoUrl
    THEN \* request_url.startswith(None) raises TypeError
         [c |-> c, ret |-> NoRecord, raised |-> TRUE, got |-> FALSE]
    ELSE IF url.base # c.m2m_base_url
    THEN [c |-> c, ret |-> NoRecord, raised |-> FALSE, got |-> FALSE]
    ELSE IF url.port = <<>>
    THEN \* int(m2m_tokens[0]) raises ValueError, which is caught
         [c |-> c, ret |-> NoRecord, raised |-> FALSE, got |-> FALSE]
    ELSE
      LET f == _build_and_send_m2m_request(c, url.port[1], url.rest, out)
      IN  IF f.raised
          THEN [c |-> f.c, ret |-> NoRecord, raised |-> TRUE, got |-> f.got]
          ELSE [c |-> f.c, ret |-> ResponseRecord(f.c, out), raised |-> FALSE,
                got |-> f.got]

-----------------------------------------------------------------------------
(* The lookup engine.                                                       *)

\* A variant that keeps the designators that begin with the fragment.
SearchPrefix(c, target) ==
    IF c.toc = {} THEN <<>>
    ELSE SelectSeq(c.instruments,
                   LAMBDA r : Len(target) <= Len(r) /\ SubSeq(r, 1, Len(target)) = target)

\* search_instruments(target_string)
search_instruments(c, target) ==
    IF c.toc = {} THEN <<>>
    ELSE SelectSeq(c.instruments, LAMBDA r : Contains(r, target))

\* search_parameters(target_string)
search_parameters(c, target) ==
    IF c.toc = {} THEN <<>>
    ELSE SelectSeq(c.parameters, LAMBDA r : Contains(r, target))

\* A variant that searches the stream names of the stored document instead of
\* the index built from it.
SearchStored(c, target) ==
    SelectSeq(Sort(ListOf(DocStreams(c.toc_response))), LAMBDA r : Contains(r, target))

\* search_streams(target_stream)
search_streams(c, target) ==
    IF c.toc = {} THEN <<>>
    ELSE SelectSeq(c.streams, LAMBDA r : Contains(r, target))

\* search_subsites(target_subsite)
search_subsites(c, target) ==
    IF c.toc = {} THEN <<>>
    ELSE Sort(SelectSeq(c.subsites, LAMBDA r : Contains(r, target)))

\* The stream records of the catalog whose name contains target.
MatchingStreams(c, target) ==
    UNION {{st \in Range(c.toc_response.instruments[At(c.toc, key)].streams) :
               Contains(st.stream, target)} : key \in Keys(c.toc)}

\* stream_to_instrument(target_stream): the sorted designators stamped on the
\* matching streams.  stream['reference_designator'] raises KeyError for a
\* stream no build or instrument_to_streams call has stamped yet.
stream_to_instrument(c, target) ==
    IF c.toc = {} THEN [ret |-> <<>>, raised |-> FALSE]
    ELSE IF \E st \in MatchingStreams(c, target) : st.reference_designator = <<>>
    THEN [ret |-> <<>>, raised |-> TRUE]
    ELSE [ret |-> Sort(ListOf({st.reference_designator : st \in MatchingStreams(c, target)})),
          raised |-> FALSE]

\* int(time.mktime(dt.timetuple())) * 1000, the local zone being UTC.
EpochMs(dt) == <<dt.w * 3600 * 1000>>

\* A variant that leaves out the streams an earlier call gave epoch fields.
RECURSIVE AnnotateOnce(_, _, _, _, _)
AnnotateOnce(ss, key, i, k, acc) ==
    IF k > Len(ss) THEN [streams |-> ss, refs |-> acc]
    ELSE
      LET ss1 == [ss EXCEPT ![k].reference_designator = key]
          ss2 == [ss1 EXCEPT ![k].endTimeEpochMs = EpochMs(Parse(ss[k].endTime)),
                             ![k].beginTimeEpochMs = EpochMs(Parse(ss[k].beginTime))]
      IN  IF ParseFails(ss[k].beginTime) \/ ParseFails(ss[k].endTime)
             \/ ss[k].beginTimeEpochMs # NoInt
          THEN AnnotateOnce(ss1, key, i, k + 1, acc)
          ELSE AnnotateOnce(ss2, key, i, k + 1, Append(acc, <<i, k>>))

\* The loop of instrument_to_streams over the streams of instrument i (its
\* key is key) from position k: every stream is stamped with the designator;
\* one whose beginTime or endTime does not parse is left out of the result;
\* the others get their epoch fields and are appended.  A stream is referred
\* to by <<instrument position, stream position>>.
RECURSIVE AnnotateStreams(_, _, _, _, _)
AnnotateStreams(ss, key, i, k, acc) ==
    IF k > Len(ss) THEN [streams |-> ss, refs |-> acc]
    ELSE
      LET ss1 == [ss EXCEPT ![k].reference_designator = key]
          ss2 == [ss1 EXCEPT ![k].endTimeEpochMs = EpochMs(Parse(ss[k].endTime)),
                             ![k].beginTimeEpochMs = EpochMs(Parse(ss[k].beginTime))]
      IN  IF ParseFails(ss[k].beginTime) \/ ParseFails(ss[k].endTime)
          THEN AnnotateStreams(ss1, key, i, k + 1, acc)
          ELSE AnnotateStreams(ss2, key, i, k + 1, Append(acc, <<i, k>>))

\* The loop of instrument_to_streams over the matching instruments.
RECURSIVE AnnotateAll(_, _, _)
AnnotateAll(c, keys, acc) ==
    IF keys = <<>> THEN [c |-> c, ret |-> acc]
    ELSE
      LET key == Head(keys)
          i == At(c.toc, key)
          r == AnnotateStreams(c.toc_response.instruments[i].streams, key, i, 1, acc)
      IN  AnnotateAll([c EXCEPT !.toc_response.instruments[i].streams = r.streams],
                      Tail(keys), r.refs)

\* instrument_to_streams(reference_designator): the client afterwards and the
\* list of (references to) stream records returned.
instrument_to_streams(c, ref_des) ==
    AnnotateAll(c, search_instruments(c, ref_des), <<>>)

\* The stream record a reference points to.
StreamAt(c, ref) == c.toc_response.instruments[ref[1]].streams[ref[2]]

-----------------------------------------------------------------------------
(* The query builder: build_instrument_m2m_queries.                         *)

\* str(b).lower()
BoolStr(b) == IF b THEN "true" ELSE "false"

\* The request URL, field by field in the order the format string writes them.
StreamUrl(base, r_tokens, s, ts0, ts1, o) ==
    [base |-> base, port |-> 12576, path |-> "sensor/inv",
     subsite |-> r_tokens[1], node |-> r_tokens[2],
     sensor |-> <<r_tokens[3], r_tokens[4]>>,
     method |-> s.method, stream |-> s.stream,
     beginDT |-> ts0, endDT |-> ts1,
     format |-> o.application_type, limit |-> o.limit,
     execDPA |-> BoolStr(o.exec_dpa),
     include_provenance |-> BoolStr(o.provenance),
     selogging |-> BoolStr(o.selogging), user |-> o.user,
     \* '&email=...' is appended only `if email:`
     email |-> IF TruthyName(o.email) THEN o.email ELSE None]

\* time_delta_type and time_delta_value
DeltaMode(a) == TruthyName(a.time_delta_type) /\ TruthyInt(a.time_delta_value)

\* A variant in which a begin_ts that is given wins over the time delta.
BeginFirst(a, begin_dt, stream_dt0, stream_dt1) ==
    IF TruthyTs(a.begin_ts) THEN begin_dt
    ELSE IF DeltaMode(a)
    THEN MinusDelta(stream_dt1, a.time_delta_type, a.time_delta_value[1])
    ELSE stream_dt0

\* The effective start and end before time_check (lines 554-566).
EffectiveStart(a, begin_dt, stream_dt0, stream_dt1) ==
    IF DeltaMode(a)
    THEN MinusDelta(stream_dt1, a.time_delta_type, a.time_delta_value[1])
    ELSE IF TruthyTs(a.begin_ts) THEN begin_dt ELSE stream_dt0

EffectiveEnd(a, end_dt, stream_dt1) ==
    IF DeltaMode(a) THEN stream_dt1
    ELSE IF TruthyTs(a.end_ts) THEN end_dt ELSE stream_dt1

\* The body of the loop over an instrument's streams, for one stream record:
\* "skip" (continue), "raise" (an exception leaves the method) or "url".
OneStream(base, instrument, s, a, begin_dt, end_dt) ==
    LET r_tokens == Split(instrument)
        stream_dt0 == Parse(s.beginTime)
        stream_dt1 == Parse(s.endTime)
        dt0 == EffectiveStart(a, begin_dt, stream_dt0, stream_dt1)
        dt1 == EffectiveEnd(a, end_dt, stream_dt1)
        \* time_check: the stream's own strings replace the formatted ones
        ts1 == IF a.time_check /\ DtLess(stream_dt1, dt1) THEN s.endTime ELSE Strftime(dt1)
        ts0 == IF a.time_check /\ DtLess(dt0, stream_dt0) THEN s.beginTime ELSE Strftime(dt0)
    IN
    IF a.telemetry # <<>> /\ ~Contains(s.method, a.telemetry) THEN [kind |-> "skip"]
    ELSE IF ParseFails(s.beginTime) \/ ParseFails(s.endTime) THEN [kind |-> "skip"]
    ELSE IF DeltaMode(a) /\ DeltaFails(a.time_delta_type) THEN [kind |-> "raise"]
    ELSE IF a.time_check /\ (CompareFails(dt1, stream_dt1) \/ CompareFails(dt0, stream_dt0))
         THEN [kind |-> "raise"]        \* TypeError: naive against aware
    ELSE IF a.time_check /\ CompareFails(Parse(ts0), Parse(ts1))
         THEN [kind |-> "raise"]
    ELSE IF a.time_check /\ ~DtLess(Parse(ts0), Parse(ts1)) THEN [kind |-> "skip"]
    ELSE IF Len(r_tokens) < 4 THEN [kind |-> "raise"]   \* IndexError: r_tokens[3]
    ELSE [kind |-> "url",
          url |-> StreamUrl(base, r_tokens, s, ts0, ts1, a.opts)]

\* A variant of the loop that does not append a URL the list already holds.
RECURSIVE StreamsLoopMerging(_, _, _, _, _, _, _, _)
StreamsLoopMerging(c, instrument, refs, k, a, begin_dt, end_dt, urls) ==
    IF k > Len(refs) THEN [urls |-> urls, raised |-> FALSE]
    ELSE
      LET r == OneStream(c.m2m_base_url, instrument, StreamAt(c, refs[k]), a, begin_dt, end_dt)
      IN  IF r.kind = "raise" THEN [urls |-> urls, raised |-> TRUE]
          ELSE StreamsLoopMerging(c, instrument, refs, k + 1, a, begin_dt, end_dt,
                                  IF r.kind = "url" /\ r.url \notin Range(urls)
                                  THEN Append(urls, r.url) ELSE urls)

\* The loop over instrument_streams from position k.
RECURSIVE StreamsLoop(_, _, _, _, _, _, _, _)
StreamsLoop(c, instrument, refs, k, a, begin_dt, end_dt, urls) ==
    IF k > Len(refs) THEN [urls |-> urls, raised |-> FALSE]
    ELSE
      LET r == OneStream(c.m2m_base_url, instrument, StreamAt(c, refs[k]), a, begin_dt, end_dt)
      IN  IF r.kind = "raise" THEN [urls |-> urls, raised |-> TRUE]
          ELSE StreamsLoop(c, instrument, refs, k + 1, a, begin_dt, end_dt,
                           IF r.kind = "url" THEN Append(urls, r.url) ELSE urls)

\* The streams of an instrument the stream option leaves: all of them when it
\* is not given; none (`continue`) when no stream has that name; else the
\* first stream of that name (stream_names.index(stream)).
SelectStream(c, refs, stream) ==
    IF stream = <<>> THEN refs
    ELSE IF \A n \in 1..Len(refs) : StreamAt(c, refs[n]).stream # stream THEN <<>>
    ELSE LET i == CHOOSE n \in 1..Len(refs) :
                      /\ StreamAt(c, refs[n]).stream = stream
                      /\ \A m \in 1..(n - 1) : StreamAt(c, refs[m]).stream # stream
         IN  <<refs[i]>>

\* The loop over the matched instruments.
RECURSIVE InstrumentsLoop(_, _, _, _, _, _)
InstrumentsLoop(c, insts, a, begin_dt, end_dt, urls) ==
    IF insts = <<>> THEN [c |-> c, ret |-> urls, raised |-> FALSE]
    ELSE
      LET instrument == Head(insts)
          its == instrument_to_streams(c, instrument)
          refs == SelectStream(its.c, its.ret, a.stream)
          r == StreamsLoop(its.c, instrument, refs, 1, a, begin_dt, end_dt, urls)
      IN  IF r.raised THEN [c |-> its.c, ret |-> <<>>, raised |-> TRUE]
          ELSE InstrumentsLoop(its.c, Tail(insts), a, begin_dt, end_dt, r.urls)

\* build_instrument_m2m_queries(ref_des, stream, telemetry, time_delta_type,
\* time_delta_value, begin_ts, end_ts, time_check, ...): the client afterwards,
\* the list returned, whether an exception left the method.
build_instrument_m2m_queries(c, a) ==
    LET insts == search_instruments(c, a.ref_des)
    IN
    IF insts = <<>> THEN [c |-> c, ret |-> <<>>, raised |-> FALSE]
    ELSE IF DeltaMode(a) /\ a.time_delta_type \notin _valid_relativedeltatypes
         THEN [c |-> c, ret |-> <<>>, raised |-> FALSE]
    ELSE IF TruthyTs(a.begin_ts) /\ ParseFails(a.begin_ts)
         THEN [c |-> c, ret |-> <<>>, raised |-> FALSE]
    ELSE IF TruthyTs(a.end_ts) /\ ParseFails(a.end_ts)
         THEN [c |-> c, ret |-> <<>>, raised |-> FALSE]
    ELSE InstrumentsLoop(c, insts, a,
                         IF TruthyTs(a.begin_ts) THEN Parse(a.begin_ts) ELSE NoTs,
                         IF TruthyTs(a.end_ts) THEN Parse(a.end_ts) ELSE NoTs,
                         <<>>)

-----------------------------------------------------------------------------
(* The deployment normaliser: query_instrument_deployments.                 *)

\* A raw deployment event of the JSON list.  Times are epoch milliseconds,
\* None being NoInt.
Event(id, subsite, node, sensor, full, start, stop) ==
    [eventId |-> id, eventName |-> "deploy", deploymentNumber |-> 1,
     referenceDesignator |-> [subsite |-> subsite, node |-> node,
                              sensor |-> sensor, full |-> full],
     eventStartTime |-> start, eventStopTime |-> stop]

\* datetime.datetime.utcfromtimestamp(ms/1000) raises ValueError
ConvertFails(ms) == ms \div 1000 > LastSecond

\* ....strftime('%Y-%m-%dT%H:%M:%S.%sZ') of the converted time: the string
\* is kept as the second it is the rendering of.
EventTs(ms) == [second |-> ms \div 1000]
NoEventTs == [none |-> TRUE]

\* status.lower()
Lower(status) ==
    CASE status = "Active" -> "active"
      [] status = "INACTIVE" -> "inactive"
      [] OTHER -> status

\* '{:s}-{:s}-{:s}'.format(subsite, node, sensor)
EventDesignator(event) ==
    event.referenceDesignator.subsite \o <<"-">> \o
    event.referenceDesignator.node \o <<"-">> \o
    event.referenceDesignator.sensor

\* The deployment_event dict as it stands when the loop body reaches the
\* status filter (lines 410-445).
Normalized(event) ==
    [instrument |-> [reference_designator |-> EventDesignator(event),
                     node |-> event.referenceDesignator.node,
                     full |-> event.referenceDesignator.full,
                     subsite |-> event.referenceDesignator.subsite,
                     sensor |-> event.referenceDesignator.sensor],
     event_start_ms |-> event.eventStartTime,
     event_stop_ms |-> event.eventStopTime,
     deployment_number |-> event.deploymentNumber,
     event_start_ts |-> EventTs(event.eventStartTime[1]),
     event_stop_ts |-> IF TruthyInt(event.eventStopTime)
                       THEN EventTs(event.eventStopTime[1]) ELSE NoEventTs,
     active |-> ~TruthyInt(event.eventStopTime),
     valid |-> TRUE]

\* The loop body for one event: TRUE when the event is appended (no
\* `continue` is taken).
Survives(event, search_string, status) ==
    /\ event.referenceDesignator.full
    /\ TruthyInt(event.eventStartTime)
    /\ ~ConvertFails(event.eventStartTime[1])
    /\ TruthyInt(event.eventStopTime) => ~ConvertFails(event.eventStopTime[1])
    /\ TruthyName(status) =>
          /\ ~(Lower(status) = "active" /\ ~Normalized(event).active)
          /\ ~(Lower(status) = "inactive" /\ Normalized(event).active)
    /\ search_string # <<>> => Contains(EventDesignator(event), search_string)

\* A variant that appends every raw event, kept or not.
RECURSIVE EventsLoopAllRaw(_, _, _, _)
EventsLoopAllRaw(c, k, search_string, status) ==
    IF k > Len(c.selected_raw_events) THEN c
    ELSE
      LET event == c.selected_raw_events[k]
          c1 == [c EXCEPT !.filtered_raw_events = Append(@, event)]
      IN  IF Survives(event, search_string, status)
          THEN EventsLoopAllRaw(
                 [c1 EXCEPT !.instrument_deployment_events = Append(@, Normalized(event))],
                 k + 1, search_string, status)
          ELSE EventsLoopAllRaw(c1, k + 1, search_string, status)

\* The loop over self._selected_raw_events from position k.
RECURSIVE EventsLoop(_, _, _, _)
EventsLoop(c, k, search_string, status) ==
    IF k > Len(c.selected_raw_events) THEN c
    ELSE
      LET event == c.selected_raw_events[k]
      IN  IF Survives(event, search_string, status)
          THEN EventsLoop(
                 [c EXCEPT !.filtered_raw_events = Append(@, event),
                           !.instrument_deployment_events = Append(@, Normalized(event))],
                 k + 1, search_string, status)
          ELSE EventsLoop(c, k + 1, search_string, status)

NoneRet == [none |-> TRUE]
ListRet(l) == [list |-> l]

\* query_instrument_deployments(ref_des, ref_des_search_string, status),
\* requests.get yielding out.
query_instrument_deployments(c, ref_des, search_string, status, out) ==
    LET f == _build_and_send_m2m_request(c, 12587, DeploymentEndPoint(ref_des), out)
        c1 == [f.c EXCEPT !.selected_raw_events = f.ret.events,
                          !.filtered_raw_events = <<>>,
                          !.instrument_deployment_events = <<>>]
        c2 == EventsLoop(c1, 1, search_string, status)
    IN  IF f.raised THEN [c |-> f.c, ret |-> NoneRet, raised |-> TRUE, got |-> f.got]
        ELSE IF ~TruthyJson(f.ret)
        THEN [c |-> f.c, ret |-> NoneRet, raised |-> FALSE, got |-> f.got]
        ELSE [c |-> c2, ret |-> ListRet(c2.instrument_deployment_events),
              raised |-> FALSE, got |-> f.got]

-----------------------------------------------------------------------------
(* The state machine.                                                       *)

Init ==
    /\ phase = "new"
    /\ base_url = None
    /\ m2m_base_url = NoUrl
    /\ static_toc = FALSE
    /\ toc_response = NoDoc
    /\ toc = {}
    /\ instruments = <<>>
    /\ parameters = <<>>
    /\ streams = <<>>
    /\ subsites = <<>>
    /\ selected_raw_events = <<>>
    /\ filtered_raw_events = <<>>
    /\ instrument_deployment_events = <<>>
    /\ last_m2m_request = NoRequest
    /\ last_m2m_status_code = NoCode
    /\ last_m2m_response = NoDoc
    /\ call = [op |-> "none"]

\* The document a load would build from.
LoadDoc(c, out) ==
    IF TruthyJson(c.toc_response) THEN c.toc_response
    ELSE IF out # ConnError /\ out.json THEN out.body
    ELSE NoDoc

\* The answers the server may give to the catalog GET that assigning url to
\* c.base_url sends; one placeholder when no GET is sent.
TocAnswers(c, url) ==
    IF StartsWithHttp(url) /\ ~c.static_toc /\ ~TruthyJson(c.toc_response)
    THEN Outcomes(TocBodies(StripUrl(url)))
    ELSE {ConnError}

\* The orders in which the loader may meet the keys of the document's dicts;
\* one placeholder when assigning url to c.base_url loads nothing.
KeyOrders(c, url, keys) ==
    IF StartsWithHttp(url) /\ ~c.static_toc THEN Orders(keys) ELSE {<<>>}

\* M2mClient(base_url=url, toc=tocarg)
Construct ==
    /\ phase = "new"
    /\ \E url \in BaseUrlArgs, tocarg \in SuppliedTocs :
       \E out \in TocAnswers(Fresh(tocarg), url) :
       \E ikeys \in KeyOrders(Fresh(tocarg), url,
                              DocKeys(LoadDoc(Fresh(tocarg), out))),
          skeys \in KeyOrders(Fresh(tocarg), url,
                              DocStreams(LoadDoc(Fresh(tocarg), out))) :
          LET r == InitOf(url, tocarg, out, ikeys, skeys)
          IN  /\ Becomes(r.c)
              /\ phase' = IF r.raised THEN "failed" ELSE "ready"
              /\ call' = [op |-> "init", url |-> url, tocarg |-> tocarg,
                          raised |-> r.raised, got |-> r.got]

\* client.base_url = url
SetBaseUrl ==
    /\ phase = "ready"
    /\ \E url \in BaseUrlArgs :
       \E out \in TocAnswers(Self, url) :
       \E ikeys \in KeyOrders(Self, url, DocKeys(LoadDoc(Self, out))),
          skeys \in KeyOrders(Self, url, DocStreams(LoadDoc(Self, out))) :
          LET r == SetBaseUrlOf(Self, url, out, ikeys, skeys)
          IN  /\ Becomes(r.c)
              /\ phase' = phase
              /\ call' = [op |-> "base_url", url |-> url,
                          raised |-> r.raised, got |-> r.got]

-----------------------------------------------------------------------------
(* Inputs of the query builder.                                             *)

DefaultOpts ==
    [application_type |-> "netcdf", limit |-> -1, exec_dpa |-> TRUE,
     provenance |-> TRUE, selogging |-> FALSE, user |-> "_nouser", email |-> None]
OtherOpts ==
    [application_type |-> "json", limit |-> 100, exec_dpa |-> FALSE,
     provenance |-> FALSE, selogging |-> FALSE, user |-> "me", email |-> "me@x.org"]

\* begin_ts / end_ts as a caller writes them: without a zone, with Z, or
\* with an offset east of UTC.
TimeStrings == {Ts(w, tz, FALSE) : w \in 0..MaxHour, tz \in {"naive", "utc", "east"}}
OptionalTs == {NoTs, BadTs} \cup TimeStrings

DeltaValues == {NoInt} \cup {<<n>> : n \in 0..MaxDelta}

\* The time inputs: every begin_ts/end_ts pair without a time delta, and
\* every time delta with a few begin_ts/end_ts pairs.
Windows ==
    {[time_delta_type |-> None, time_delta_value |-> NoInt, begin_ts |-> b, end_ts |-> e] :
        b \in OptionalTs, e \in OptionalTs}
    \cup
    {[time_delta_type |-> ty, time_delta_value |-> v, begin_ts |-> p[1], end_ts |-> p[2]] :
        ty \in {None, "hours", "days", "fortnights"},
        v \in DeltaValues,
        p \in {<<NoTs, NoTs>>,
               <<Ts(0, "utc", FALSE), Ts(MaxHour, "utc", FALSE)>>,
               <<Ts(MaxHour, "naive", FALSE), Ts(0, "east", FALSE)>>,
               <<BadTs, NoTs>>}}

BuildArgsOf(refs, strs, tels, wins, checks, opts) ==
    {[ref_des |-> r, stream |-> st, telemetry |-> tl,
      time_delta_type |-> w.time_delta_type, time_delta_value |-> w.time_delta_value,
      begin_ts |-> w.begin_ts, end_ts |-> w.end_ts, time_check |-> tc, opts |-> o] :
        r \in refs, st \in strs, tl \in tels, w \in wins, tc \in checks, o \in opts}

\* The calls explored right after construction.
BuildArgs ==
    BuildArgsOf({<<>>, RD_CM0X}, {<<>>, S_ct}, {<<>>, <<"t">>}, Windows, BOOLEAN,
                {DefaultOpts, OtherOpts})

\* The calls explored at any point of a client's life.
FewBuildArgs ==
    BuildArgsOf({<<>>, <<"m">>}, {<<>>}, {<<>>},
                {w \in Windows : /\ w.begin_ts \in {NoTs, Ts(2, "utc", FALSE)}
                                 /\ w.end_ts = NoTs
                                 /\ w.time_delta_type \in {None, "hours"}
                                 /\ w.time_delta_value \in {NoInt, <<1>>}},
                {TRUE}, {DefaultOpts})

\* build_instrument_m2m_queries(a.ref_des, stream=a.stream, ...)
Build(a) ==
    /\ phase = "ready"
    /\ LET r == build_instrument_m2m_queries(Self, a)
       IN  /\ Becomes(r.c)
           /\ call' = [op |-> "build", args |-> a, ret |-> r.ret, raised |-> r.raised,
                       again |-> FALSE, first |-> r.ret, first_raised |-> r.raised,
                       same |-> r.c = Self]
    /\ UNCHANGED phase

\* The caller repeats its last build_instrument_m2m_queries call with the
\* same arguments.
BuildAgain ==
    /\ phase = "ready"
    /\ call.op = "build"
    /\ ~call.again
    /\ LET r == build_instrument_m2m_queries(Self, call.args)
       IN  /\ Becomes(r.c)
           /\ call' = [call EXCEPT !.ret = r.ret, !.raised = r.raised, !.again = TRUE]
    /\ UNCHANGED phase

-----------------------------------------------------------------------------
(* Inputs of the deployment query.                                          *)

\* The fetched events are drawn from these: active; stopped; no
\* fully-qualified designator; no start time; start time 0; a start or a stop
\* time past the last convertible second; stop time 0.
PastLast == <<(LastSecond + 1) * 1000>>
EventPool ==
    { Event(1, <<"C">>, <<"M">>, <<"0", "-", "X">>, TRUE, <<1000>>, NoInt),
      Event(2, <<"G">>, <<"M">>, <<"0", "-", "X">>, TRUE, <<1000>>, <<2000>>),
      Event(3, <<"C">>, <<"M">>, <<"0", "-", "X">>, FALSE, <<1000>>, NoInt),
      Event(4, <<"C">>, <<"M">>, <<"0", "-", "X">>, TRUE, NoInt, <<2000>>),
      Event(5, <<"G">>, <<"M">>, <<"0", "-", "X">>, TRUE, <<0>>, <<2000>>),
      Event(6, <<"G">>, <<"M">>, <<"0", "-", "X">>, TRUE, PastLast, NoInt),
      Event(7, <<"C">>, <<"M">>, <<"0", "-", "X">>, TRUE, <<1000>>, PastLast),
      Event(8, <<"C">>, <<"M">>, <<"1", "-", "Y">>, TRUE, <<1000>>, <<0>>) }

\* Lists of at most n events of a pool.
RECURSIVE Batches(_, _)
Batches(pool, n) ==
    IF n = 0 THEN {<<>>}
    ELSE Batches(pool, n - 1)
         \cup {Append(b, e) : b \in {x \in Batches(pool, n - 1) : Len(x) = n - 1}, e \in pool}

StatusArgs == {None, "all", "Active", "INACTIVE"}
SearchArgs == {<<>>, <<"G">>}

\* query_instrument_deployments(ref_des, ref_des_search_string, status), the
\* server answering with one of outs.
QueryDeployments(outs, searches, statuses) ==
    /\ phase = "ready"
    /\ \E out \in outs, search_string \in searches, status \in statuses :
          LET r == query_instrument_deployments(Self, <<"G">>, search_string, status, out)
          IN  /\ Becomes(r.c)
              /\ call' = [op |-> "deployments", out |-> out,
                          search_string |-> search_string, status |-> status,
                          ret |-> r.ret, raised |-> r.raised, got |-> r.got]
    /\ UNCHANGED phase

\* Any answer to a deployment query holding at most MaxEvents events.
AnyDeployments == Outcomes({EventsJson(b) : b \in Batches(EventPool, MaxEvents)})
\* A few answers: failures, the empty list, one stopped deployment.
FewDeployments ==
    Outcomes({EventsJson(<<>>),
              EventsJson(<<Event(2, <<"G">>, <<"M">>, <<"0", "-", "X">>, TRUE, <<1000>>, <<2000>>)>>)})

-----------------------------------------------------------------------------
(* Searches.                                                                *)

Fragments == {<<>>, <<"C">>, <<"M", "-", "0">>, <<"m">>, <<"p">>, <<"v">>}

Search ==
    /\ phase = "ready"
    /\ \E f \in Fragments :
          call' = [op |-> "search", fragment |-> f,
                   instruments |-> search_instruments(Self, f),
                   parameters |-> search_parameters(Self, f),
                   streams |-> search_streams(Self, f),
                   subsites |-> search_subsites(Self, f)]
    /\ UNCHANGED <<phase, base_url, m2m_base_url, static_toc, toc_response, toc,
                   instruments, parameters, streams, subsites, selected_raw_events,
                   filtered_raw_events, instrument_deployment_events,
                   last_m2m_request, last_m2m_status_code, last_m2m_response>>

\* stream_to_instrument(f) and instrument_to_streams(f)
Streams ==
    /\ phase = "ready"
    /\ \E f \in Fragments :
          LET r == instrument_to_streams(Self, f)
              t == stream_to_instrument(Self, f)
          IN  /\ Becomes(r.c)
              /\ call' = [op |-> "streams", fragment |-> f,
                          to_instrument |-> t.ret, to_instrument_raised |-> t.raised,
                          to_streams |-> [n \in 1..Len(r.ret) |-> StreamAt(r.c, r.ret[n])],
                          same |-> r.c = Self]
    /\ UNCHANGED phase

-----------------------------------------------------------------------------
(* Direct requests.                                                         *)

\* The URLs a caller sends: to either server, with a port that is a number or
\* not, for the catalog or for a deployment query.
SendUrls ==
    {RequestUrl(M2mBase(b), p, e) :
        b \in {"http://a", "http://b"},
        p \in {<<12576>>, <<12587>>, <<>>},
        e \in {StripEndPoint(TocEndPoint), StripEndPoint(DeploymentEndPoint(RD_GM0X))}}

\* What requests.get may yield for send_m2m_request(url) on c; one
\* placeholder when the call sends nothing.
SendAnswers(c, url) ==
    IF c.m2m_base_url # NoUrl /\ url.base = c.m2m_base_url /\ url.port # <<>>
    THEN Outcomes({EmptyJson, ErrorJson})
    ELSE {ConnError}

\* send_m2m_request(url)
Send ==
    /\ phase = "ready"
    /\ \E url \in SendUrls :
       \E out \in SendAnswers(Self, url) :
          LET r == send_m2m_request(Self, url, out)
          IN  /\ Becomes(r.c)
              /\ call' = [op |-> "send", url |-> url, out |-> out, ret |-> r.ret,
                          raised |-> r.raised, got |-> r.got]
    /\ UNCHANGED phase

-----------------------------------------------------------------------------
(* Specifications.                                                          *)

\* The catalog's life: construction, then base_url assignments, searches and
\* a few query builds in any order.
Next ==
    \/ Construct
    \/ SetBaseUrl
    \/ Search
    \/ Streams
    \/ \E a \in FewBuildArgs : Build(a)

Spec == Init /\ [][Next]_vars

\* Construction, then one build_instrument_m2m_queries call on the loaded
\* catalog, drawn from all of BuildArgs, and its repetition.
NextBuild ==
    \/ Construct
    \/ (call.op = "init" /\ toc # {} /\ \E a \in BuildArgs : Build(a))
    \/ BuildAgain

SpecBuild == Init /\ [][NextBuild]_vars

\* Construction, then one deployment query with any answer, then further
\* queries with a few answers.
NextDeployments ==
    \/ Construct
    \/ (call.op = "init" /\ QueryDeployments(AnyDeployments, SearchArgs, StatusArgs))
    \/ (call.op = "deployments" /\ QueryDeployments(FewDeployments, {<<>>}, {None}))

SpecDeployments == Init /\ [][NextDeployments]_vars

\* Construction, then direct requests with any answer.
NextSend ==
    \/ Construct
    \/ Send

SpecSend == Init /\ [][NextSend]_vars

-----------------------------------------------------------------------------
(* Properties of build_instrument_m2m_queries, under SpecBuild.             *)

Max(x, y) == IF x >= y THEN x ELSE y
Min(x, y) == IF x <= y THEN x ELSE y

\* The catalog's stream records an emitted URL names: those of the
\* instrument, delivery method and stream name in the URL.
NamedBy(u, i) ==
    LET t == Split(toc_response.instruments[i].reference_designator)
    IN  /\ Len(t) >= 4
        /\ <<t[1], t[2], <<t[3], t[4]>>>> = <<u.subsite, u.node, u.sensor>>

UrlStreams(u) ==
    UNION {{s \in Range(toc_response.instruments[i].streams) :
               s.method = u.method /\ s.stream = u.stream} :
           i \in {j \in 1..Len(toc_response.instruments) : NamedBy(u, j)}}

\* For each URL of the last build call and each stream it names, P(u, s0, s1)
\* holds of the URL and the instants the stream's coverage begins and ends at.
EveryUrl(P(_, _, _)) ==
    \A n \in 1..Len(call.ret) :
       \A s \in UrlStreams(call.ret[n]) :
          P(call.ret[n], Instant(Parse(s.beginTime)), Instant(Parse(s.endTime)))

SomeUrl(P(_, _, _)) ==
    \E n \in 1..Len(call.ret) :
       \E s \in UrlStreams(call.ret[n]) :
          P(call.ret[n], Instant(Parse(s.beginTime)), Instant(Parse(s.endTime)))

\* The instant a begin_ts/end_ts argument asks for; d when it is not given.
Requested(ts, d) == IF TruthyTs(ts) THEN Instant(Parse(ts)) ELSE d

NoDelta(a) == a.time_delta_type = None /\ a.time_delta_value = NoInt

\* C1: with time_check true and no time delta, every URL emitted for a stream
\* of coverage [s0, s1] has a beginDT denoting max(begin, s0) and an endDT
\* denoting min(end, s1), begin and end defaulting to s0 and s1.
C1_Clamped ==
    (call.op = "build" /\ call.args.time_check /\ NoDelta(call.args)) =>
        EveryUrl(LAMBDA u, s0, s1 :
            /\ Instant(Parse(u.beginDT)) = Max(Requested(call.args.begin_ts, s0), s0)
            /\ Instant(Parse(u.endDT)) = Min(Requested(call.args.end_ts, s1), s1))

\* C2: no URL is emitted when the requested begin_ts is after the requested
\* end_ts, whatever the other options are; stated here for time_check true,
\* the setting under which the builder tests for a degenerate window.
C2_DegenerateWindow ==
    (/\ call.op = "build"
     /\ call.args.time_check
     /\ ~ParseFails(call.args.begin_ts)
     /\ ~ParseFails(call.args.end_ts)
     /\ Instant(Parse(call.args.begin_ts)) > Instant(Parse(call.args.end_ts)))
    => call.ret = <<>>

\* No stream record carries the epoch fields instrument_to_streams adds.
Unprocessed ==
    \A i \in 1..Len(toc_response.instruments) :
       \A s \in Range(toc_response.instruments[i].streams) :
          s.beginTimeEpochMs = NoInt /\ s.endTimeEpochMs = NoInt

\* time_delta_type is given and is none of the seven units.
InvalidType(a) ==
    /\ a.time_delta_type # None
    /\ a.time_delta_type \notin
          {"years", "months", "weeks", "days", "hours", "minutes", "seconds"}

\* C3 as stated: a call whose time_delta_type is given and is not one of the
\* seven units returns an empty sequence without processing any stream,
\* whatever time_delta_value is.
C3_AnyInvalidType ==
    (call.op = "build" /\ InvalidType(call.args)) =>
        (call.ret = <<>> /\ ~call.raised /\ Unprocessed)

\* C3: a call whose time_delta_type is given and is not one of the seven
\* units, together with a non-zero time_delta_value, returns an empty sequence
\* without processing any stream.
C3_InvalidTypeWithValue ==
    (call.op = "build" /\ InvalidType(call.args) /\ TruthyInt(call.args.time_delta_value)) =>
        (call.ret = <<>> /\ ~call.raised /\ Unprocessed)

\* An invalid type with a value is passed for instruments that have streams a
\* valid call would process.
C3_Witness ==
    /\ call.op = "build"
    /\ InvalidType(call.args)
    /\ TruthyInt(call.args.time_delta_value)
    /\ instrument_to_streams(Self, call.args.ref_des).ret # <<>>
    /\ call.ret = <<>>

ValidDelta(a) ==
    /\ a.time_delta_type \in
          {"years", "months", "weeks", "days", "hours", "minutes", "seconds"}
    /\ TruthyInt(a.time_delta_value)
    /\ a.time_delta_value[1] > 0

\* s1 minus N units, in hours.
DeltaStart(a, s1) == s1 - a.time_delta_value[1] * UnitHours(a.time_delta_type)

\* C4: with a valid time_delta_type and a positive time_delta_value N, every
\* URL emitted for a stream of coverage [s0, s1] has an endDT denoting s1 and
\* a beginDT denoting s1 minus N units, raised to s0 when time_check is true
\* and s1 minus N units precedes s0, whatever begin_ts and end_ts are.
C4_DeltaWindow ==
    (call.op = "build" /\ ValidDelta(call.args)) =>
        EveryUrl(LAMBDA u, s0, s1 :
            /\ Instant(Parse(u.endDT)) = s1
            /\ Instant(Parse(u.beginDT)) =
                  IF call.args.time_check /\ DeltaStart(call.args, s1) < s0
                  THEN s0 ELSE DeltaStart(call.args, s1))

\* A delta call that also passes begin_ts and end_ts emits a URL whose window
\* is neither of them.
C4_Witness ==
    /\ call.op = "build"
    /\ ValidDelta(call.args)
    /\ ~ParseFails(call.args.begin_ts)
    /\ ~ParseFails(call.args.end_ts)
    /\ SomeUrl(LAMBDA u, s0, s1 :
          /\ Instant(Parse(u.beginDT)) # Instant(Parse(call.args.begin_ts))
          /\ Instant(Parse(u.endDT)) # Instant(Parse(call.args.end_ts)))

\* C5: repeating a build_instrument_m2m_queries call with the same arguments
\* and no catalog load in between returns the same URLs in the same order.
C5_Repeatable ==
    (call.op = "build" /\ call.again) =>
        (call.ret = call.first /\ call.raised = call.first_raised)

\* A repeated call that emits URLs from stream records the first call annotated.
C5_Witness ==
    /\ call.op = "build"
    /\ call.again
    /\ Len(call.ret) > 1
    /\ ~Unprocessed

-----------------------------------------------------------------------------
(* Properties of the catalog, under Spec.                                   *)

\* The catalog indexes are those a complete build from doc leaves.
DerivedFrom(doc) ==
    /\ "instruments" \in DOMAIN doc
    /\ toc = TocOf(doc.instruments)
    /\ instruments = Sort(ListOf(DocKeys(doc)))
    /\ streams = Sort(ListOf(DocStreams(doc)))
    /\ parameters = Sort([i \in 1..Len(doc.parameter_definitions) |->
                             doc.parameter_definitions[i].particle_key])
    /\ subsites = Sort(ListOf(SubsiteSet(DocKeys(doc))))

\* C6: a client constructed with a valid base URL and a supplied TOC document
\* has issued no catalog GET and holds the indexes built from that document,
\* so that search_instruments returns the document's designators.
C6_SuppliedTocLoaded ==
    (/\ call.op = "init"
     /\ ~call.raised
     /\ StartsWithHttp(call.url)
     /\ TruthyJson(call.tocarg))
    => /\ ~call.got
       /\ DerivedFrom(call.tocarg)
       /\ search_instruments(Self, <<>>) = Sort(ListOf(DocKeys(call.tocarg)))

CatalogFields == <<toc, instruments, streams, parameters, subsites>>

\* C7: an assignment to base_url, whether its catalog build completes or is
\* aborted, leaves the catalog fields either all derived from the document
\* the client now holds or all as they were before.
C7_AllOrNothing ==
    [][call'.op = "base_url" =>
          (CatalogFields' = CatalogFields \/ DerivedFrom(toc_response)')]_vars

-----------------------------------------------------------------------------
(* Properties of query_instrument_deployments, under SpecDeployments.       *)

\* The last query's fetch failed or returned no events: no GET was sent, or
\* it met a connection error, a status other than 200, a body that is no
\* JSON, or an empty list.
NothingFetched ==
    \/ ~call.got
    \/ call.out = ConnError
    \/ call.out.status_code # 200
    \/ ~call.out.json
    \/ call.out.body = EventsJson(<<>>)

\* C8: after a query whose fetch fails or returns no events, the result
\* lists hold no event, in particular none of an earlier query.
C8_EmptyAfterNothingFetched ==
    (call.op = "deployments" /\ NothingFetched) =>
        (instrument_deployment_events = <<>> /\ filtered_raw_events = <<>>)

\* C9: every normalized event returned is valid, and is active exactly when
\* the raw event's eventStopTime is null.
C9_ActiveIffNoStop ==
    (call.op = "deployments" /\ call.ret # NoneRet) =>
        \A n \in 1..Len(call.ret.list) :
           /\ call.ret.list[n].valid
           /\ call.ret.list[n].active <=> (filtered_raw_events[n].eventStopTime = NoInt)

\* The status filter of C10, compared case-insensitively.
KeptByStatus(status, event) ==
    CASE status \in {"active", "Active", "ACTIVE"} -> event.eventStopTime = NoInt
      [] status \in {"inactive", "Inactive", "INACTIVE"} -> event.eventStopTime # NoInt
      [] OTHER -> TRUE

\* C10: for a successful fetch, the events returned are, in encounter order,
\* the fetched events that have a fully-qualified designator and a start time,
\* pass the status filter and whose SUBSITE-NODE-SENSOR designator contains
\* the filter substring.
C10_ExactlyTheFiltered ==
    (call.op = "deployments" /\ ~NothingFetched) =>
        /\ call.ret # NoneRet
        /\ Len(call.ret.list) = Len(filtered_raw_events)
        /\ filtered_raw_events =
              SelectSeq(call.out.body.events,
                        LAMBDA e : /\ e.referenceDesignator.full
                                   /\ e.eventStartTime # NoInt
                                   /\ KeptByStatus(call.status, e)
                                   /\ Contains(EventDesignator(e), call.search_string))

\* The normalized event n describes the raw event r.
Describes(n, r) ==
    /\ n.event_start_ms = r.eventStartTime
    /\ n.event_stop_ms = r.eventStopTime
    /\ n.deployment_number = r.deploymentNumber
    /\ n.instrument.reference_designator = EventDesignator(r)
    /\ n.instrument.full = r.referenceDesignator.full

\* C11: after a successful query, selected_raw_deployment_events and
\* instrument_deployment_events have the same length, their i-th entries
\* describe the same fetched event, and no event without an eventStartTime
\* is in either.
C11_ParallelLists ==
    (call.op = "deployments" /\ call.ret # NoneRet) =>
        /\ Len(filtered_raw_events) = Len(instrument_deployment_events)
        /\ \A i \in 1..Len(filtered_raw_events) :
              /\ Describes(instrument_deployment_events[i], filtered_raw_events[i])
              /\ filtered_raw_events[i] \in Range(call.out.body.events)
              /\ filtered_raw_events[i].eventStartTime # NoInt
              /\ instrument_deployment_events[i].event_start_ms # NoInt

\* A successful query whose answer has an event without eventStartTime and
\* an event that is kept.
C11_Witness ==
    /\ call.op = "deployments"
    /\ call.ret # NoneRet
    /\ \E e \in Range(call.out.body.events) : e.eventStartTime = NoInt
    /\ Len(instrument_deployment_events) >= 1

-----------------------------------------------------------------------------
(* Properties of the searches, under Spec.                                  *)

\* l is in strictly ascending order (so without duplicates).
Ascending(l) == \A i \in 1..Len(l) : \A j \in (i + 1)..Len(l) : StrLess(l[i], l[j])

\* C12: on a loaded catalog search_instruments(f) returns exactly the catalog
\* keys that contain f, in ascending order and without duplicates;
\* search_instruments('') returns all keys.
C12_SearchInstruments ==
    (call.op = "search" /\ toc # {}) =>
        /\ Range(call.instruments) = {k \in Keys(toc) : Contains(k, call.fragment)}
        /\ Ascending(call.instruments)
        /\ call.fragment = <<>> => Range(call.instruments) = Keys(toc)

\* A search for a fragment found inside some keys and not in others.
C12_Witness ==
    /\ call.op = "search"
    /\ call.fragment = <<"M", "-", "0">>
    /\ Len(call.instruments) = 2
    /\ Cardinality(Keys(toc)) = 3

\* The last operation was a construction or an assignment to base_url whose
\* catalog build ran to its end: it did not raise, the URL passed the setter's
\* tests, the constructor was given no document (which makes it skip the
\* build), and the client holds a document.
Built ==
    /\ call.op \in {"init", "base_url"}
    /\ ~call.raised
    /\ StartsWithHttp(call.url)
    /\ call.op = "init" => ~TruthyJson(call.tocarg)
    /\ TruthyJson(toc_response)

\* The characters of k before its first hyphen.
FirstToken(k) ==
    IF \A i \in 1..Len(k) : k[i] # "-" THEN k
    ELSE SubSeq(k, 1, (CHOOSE i \in 1..Len(k) :
                          k[i] = "-" /\ \A j \in 1..(i - 1) : k[j] # "-") - 1)

\* C13: after a successful catalog build the subsite list is the ascending,
\* duplicate-free list of the first hyphen-delimited tokens of the instrument
\* keys, and search_subsites(f) returns exactly the members of the subsite
\* list that contain f, in ascending order.
C13_Subsites ==
    /\ Built =>
          /\ Range(subsites) = {FirstToken(k) : k \in Keys(toc)}
          /\ Ascending(subsites)
    /\ (call.op = "search" /\ toc # {}) =>
          /\ Range(call.subsites) = {x \in Range(subsites) : Contains(x, call.fragment)}
          /\ Ascending(call.subsites)

\* A search of a subsite list built from three keys on two subsites.
C13_Witness ==
    /\ call.op = "search"
    /\ call.fragment = <<"C">>
    /\ call.subsites = << <<"C">> >>
    /\ subsites = << <<"C">>, <<"G">> >>
    /\ Cardinality(Keys(toc)) = 3

\* C14: while the catalog is empty or was never loaded, every search, for every
\* fragment, stream_to_instrument, instrument_to_streams and
\* build_instrument_m2m_queries return an empty list, raise nothing and leave
\* the client as it was.
C14_EmptyCatalog ==
    toc = {} =>
        /\ call.op = "search" =>
              /\ call.instruments = <<>>
              /\ call.parameters = <<>>
              /\ call.streams = <<>>
              /\ call.subsites = <<>>
        /\ call.op = "streams" =>
              /\ call.to_instrument = <<>>
              /\ ~call.to_instrument_raised
              /\ call.to_streams = <<>>
              /\ call.same
        /\ call.op = "build" =>
              /\ call.ret = <<>>
              /\ ~call.raised
              /\ call.same

\* The lookups have run on a client that holds a catalog document it never
\* indexed.
C14_Witness ==
    /\ call.op = "streams"
    /\ call.fragment = <<>>
    /\ toc = {}
    /\ "instruments" \in DOMAIN toc_response
    /\ call.to_streams = <<>>

\* The designators the last build call matched.
Matched == {k \in Keys(toc) : Contains(k, call.args.ref_des)}

\* A call that names no stream, no telemetry and no time.
PlainArgs(a) ==
    /\ a.stream = <<>>
    /\ a.telemetry = <<>>
    /\ NoDelta(a)
    /\ a.begin_ts = NoTs
    /\ a.end_ts = NoTs

\* C15: build_instrument_m2m_queries does not raise when a matched designator
\* has fewer than four hyphen-delimited tokens, and the URLs of the other
\* matched instruments are returned.
C15_NeverRaises ==
    (call.op = "build" /\ \E k \in Matched : Len(Split(k)) < 4) =>
        /\ ~call.raised
        /\ PlainArgs(call.args) =>
              \A k \in Matched :
                 Len(Split(k)) >= 4 =>
                    \E n \in 1..Len(call.ret) :
                       <<call.ret[n].subsite, call.ret[n].node>> = <<Split(k)[1], Split(k)[2]>>

\* The call passed the argument checks made before the loop over instruments.
ReachesLoop(a) ==
    /\ ~(DeltaMode(a) /\ InvalidType(a))
    /\ ~(TruthyTs(a.begin_ts) /\ ParseFails(a.begin_ts))
    /\ ~(TruthyTs(a.end_ts) /\ ParseFails(a.end_ts))

\* The stream records of the instrument k the last call had to consider, by
\* position in the instrument's stream list.
Considered(k) ==
    LET i == At(toc, k)
    IN  SelectStream(Self, [p \in 1..Len(toc_response.instruments[i].streams) |-> <<i, p>>],
                     call.args.stream)

\* The URLs of the surviving stream records of instrument k, by position.
UrlsOf(k) ==
    LET a == call.args
        refs == Considered(k)
        outs == [n \in 1..Len(refs) |->
                    OneStream(m2m_base_url, k, StreamAt(Self, refs[n]), a,
                              IF TruthyTs(a.begin_ts) THEN Parse(a.begin_ts) ELSE NoTs,
                              IF TruthyTs(a.end_ts) THEN Parse(a.end_ts) ELSE NoTs)]
        kept == SelectSeq(outs, LAMBDA r : r.kind = "url")
    IN  [n \in 1..Len(kept) |-> kept[n].url]

\* The URLs of the instruments of a list, one instrument after the other.
RECURSIVE UrlsInOrder(_)
UrlsInOrder(keys) ==
    IF keys = <<>> THEN <<>> ELSE UrlsOf(Head(keys)) \o UrlsInOrder(Tail(keys))

\* C16: the list returned holds one URL per surviving (instrument, stream
\* record) pair, instruments in ascending order and, within an instrument,
\* stream records by position; equal URLs are kept and nothing is re-sorted.
C16_EncounterOrder ==
    (call.op = "build" /\ ~call.raised /\ ReachesLoop(call.args)) =>
        call.ret = UrlsInOrder(Sort(ListOf(Matched)))

\* A call that returned URLs of two instruments, two of one instrument being
\* equal and the URLs of the first instrument not being in ascending order of
\* their delivery method.
C16_Witness ==
    /\ call.op = "build"
    /\ Len(call.ret) = 4
    /\ call.ret[1].subsite = <<"C">>
    /\ StrLess(call.ret[2].method, call.ret[1].method)
    /\ call.ret[3].subsite = <<"G">>
    /\ call.ret[3] = call.ret[4]

\* C17: a catalog load that does not complete, at construction or at an
\* assignment to base_url, raises nothing and leaves toc, instruments,
\* streams, parameters and subsites as they were (empty at construction).
C17_FailedLoadIsQuiet ==
    [][(call'.op \in {"init", "base_url"} /\ ~Built') =>
          (~call'.raised /\ CatalogFields' = CatalogFields)]_vars

CatalogIndexes == <<instruments, streams, parameters, subsites>>

\* C18: the operation that follows the construction of a client with a
\* supplied catalog document leaves instruments, streams, parameters and
\* subsites as construction left them (the first step of the claim that no
\* later sequence of operations changes them).
C18_StaticIndexes ==
    [][(call.op = "init" /\ phase = "ready" /\ TruthyJson(call.tocarg)) =>
          CatalogIndexes' = CatalogIndexes]_vars

\* The URL u is for the stream record s of the instrument k.
UrlFor(u, k, s) ==
    /\ Len(Split(k)) >= 4
    /\ <<u.subsite, u.node, u.sensor>> = <<Split(k)[1], Split(k)[2], <<Split(k)[3], Split(k)[4]>>>>
    /\ u.method = s.method
    /\ u.stream = s.stream

\* C19: with the stream option set (and no time option, so that every window
\* is the stream's own coverage), the URLs returned are of streams of that
\* name only, and there is one for every stream record of a matched instrument
\* that has that name, a delivery method containing the telemetry option and
\* parseable coverage, also when the name is listed under several methods.
C19_EveryNamedStream ==
    (/\ call.op = "build"
     /\ call.args.stream # <<>>
     /\ NoDelta(call.args)
     /\ call.args.begin_ts = NoTs
     /\ call.args.end_ts = NoTs)
    => /\ \A n \in 1..Len(call.ret) : call.ret[n].stream = call.args.stream
       /\ \A k \in Matched :
             \A s \in Range(toc_response.instruments[At(toc, k)].streams) :
                (/\ s.stream = call.args.stream
                 /\ Contains(s.method, call.args.telemetry)
                 /\ ~ParseFails(s.beginTime)
                 /\ ~ParseFails(s.endTime))
                => \E n \in 1..Len(call.ret) : UrlFor(call.ret[n], k, s)

\* A timestamp string as strftime('%Y-%m-%dT%H:%M:%S.%fZ') writes one.
MicrosecondZ(ts) == ts.kind = "ts" /\ ts.tz = "utc" /\ ts.us

\* C20: the beginDT and the endDT of every URL returned are strings in the
\* microsecond-precision, Z-suffixed format, also when time_check replaced
\* the value by a bound of the stream.
C20_FormattedTimes ==
    call.op = "build" =>
        \A n \in 1..Len(call.ret) :
           MicrosecondZ(call.ret[n].beginDT) /\ MicrosecondZ(call.ret[n].endDT)

\* The last operation left a client that was given no catalog document: it
\* was constructed without one, or its last base_url assignment sent the
\* catalog GET (which a client holding a document never does).
NonStatic ==
    \/ call.op = "init" /\ ~TruthyJson(call.tocarg)
    \/ call.op = "base_url" /\ call.got

\* C21: on a client that was given no catalog document, an assignment of a
\* valid base URL other than the current one sends a catalog GET to the new
\* base URL.
C21_FetchPerBaseUrl ==
    [][(/\ NonStatic
        /\ phase = "ready"
        /\ call'.op = "base_url"
        /\ StartsWithHttp(call'.url)
        /\ StripUrl(call'.url) # base_url)
       => call'.got]_vars

-----------------------------------------------------------------------------
(* Properties of send_m2m_request, under SpecSend.                          *)

\* C22: the record send_m2m_request returns has status true only if the GET
\* of that call returned status code 200, and its requestUrl and status_code
\* are those of that call's request; a call whose GET met a connection error
\* reports neither status true nor a status code.
C22_OwnRequest ==
    (call.op = "send" /\ call.got /\ ~call.raised) =>
        /\ call.ret.status => (call.out # ConnError /\ call.out.status_code = 200)
        /\ call.out # ConnError =>
              /\ call.ret.requestUrl = M2mUrl(call.url.base, call.url.port[1], call.url.rest)
              /\ call.ret.status_code = <<call.out.status_code>>
        /\ call.out = ConnError => call.ret.status_code = NoCode

\* C23: a GET answered with a status other than 200 does not raise, whatever
\* the body is, and the last-request URL and status code are those of that
\* request.
C23_SoftFailure ==
    (/\ call.op = "send"
     /\ call.got
     /\ call.out # ConnError
     /\ call.out.status_code # 200)
    => /\ ~call.raised
       /\ last_m2m_request = M2mUrl(call.url.base, call.url.port[1], call.url.rest)
       /\ last_m2m_status_code = <<call.out.status_code>>

-----------------------------------------------------------------------------
(* Further properties of build_instrument_m2m_queries, under SpecBuild.     *)

\* C24: with time_check true, every URL emitted for a stream of coverage
\* [s0, s1] has s0 <= beginDT < endDT <= s1, with a time delta and without.
C24_WithinCoverage ==
    (call.op = "build" /\ call.args.time_check) =>
        EveryUrl(LAMBDA u, s0, s1 :
            /\ s0 <= Instant(Parse(u.beginDT))
            /\ Instant(Parse(u.beginDT)) < Instant(Parse(u.endDT))
            /\ Instant(Parse(u.endDT)) <= s1)

-----------------------------------------------------------------------------
(* Further properties of the catalog, under Spec.                           *)

\* The <<stream name, parameter id>> pairs the streams of a list contribute,
\* stream after stream, as parameters_by_stream lists the ids.
RECURSIVE Contributed(_, _)
Contributed(ss, pbs) ==
    IF ss = <<>> THEN <<>>
    ELSE LET ids == pbs[PdIdsOf(pbs, Head(ss).stream)].pdIds
         IN  [n \in 1..Len(ids) |-> <<Head(ss).stream, ids[n]>>]
                \o Contributed(Tail(ss), pbs)

\* The n-th record of the derived parameter list of the instrument at i.
ParameterAt(i, n) ==
    toc_response.parameter_definitions[toc_response.instruments[i].instrument_parameters.refs[n]]

\* The derived parameter list of every catalogued instrument has one record
\* per contributed pair, in order, and P holds of each record and its pair.
EveryParameter(P(_, _)) ==
    \A k \in Keys(toc) :
       LET inst == toc_response.instruments[At(toc, k)]
           want == Contributed(inst.streams, toc_response.parameters_by_stream)
       IN  /\ inst.instrument_parameters # NotSet
           /\ Len(inst.instrument_parameters.refs) = Len(want)
           /\ \A n \in 1..Len(want) : P(ParameterAt(At(toc, k), n), want[n])

\* C25: after a successful catalog build the derived parameter list of an
\* instrument is the concatenation, in stream order, of the parameter lists
\* of its streams, and each record carries the name of the stream that
\* contributed it.
C25_ParameterStreams ==
    Built => EveryParameter(LAMBDA p, w : p.pdId = w[2] /\ p.stream = w[1])

=============================================================================
